---- MODULE Spec2Model ----
(***************************************************************************)
(* Session lifecycle of the two HTTP entry points of the server:           *)
(*   src/transports/streamableHttp.ts  (resumable variant, /mcp)           *)
(*   src/transports/sse.ts             (push-only variant, /sse, /message) *)
(*                                                                         *)
(* A process runs one of the two entry points; `entry` says which, and     *)
(* `transports` is the module-level Map of that entry point.               *)
(*                                                                         *)
(* Node runs one synchronous block of a handler at a time, so every action *)
(* below is one such block: from the start of a handler (or from the       *)
(* resumption of an await) to its next await or its end.  The SDK          *)
(* transports and the protocol server are the environment: the outcome of  *)
(* server.connect and of transport.handleRequest is chosen by the          *)
(* environment, and the close callback is fired by it.                     *)
(***************************************************************************)
EXTENDS Integers, Sequences, FiniteSets, TLC

\* ---------------------------------------------------------------- bounds
MaxTransports == 2   \* transport objects ever constructed by the process
MaxServers == 3      \* createServer() calls ever made
MaxEvents == 1       \* events stored per resumable transport
MaxCleanups == 2     \* calls of cleanup followed per session

\* ------------------------------------------------------------- constants
Absent == -1         \* the header / query parameter is not there (undefined)
Empty == 0           \* the header / query parameter is the empty string
BadRequestCode == -32000
InternalErrorCode == -32603

\* !sessionId of JavaScript: undefined and "" are falsy
Falsy(h) == h = Absent \/ h = Empty

SessionIds == 1..MaxTransports
HeaderValues == {Absent, Empty} \cup SessionIds

VARIABLES
  entry,          \* the entry point the process runs: "streamableHttp" or "sse";
                  \* "exited" once the process has exited
  transports,     \* Map sessionId -> transport object
  tr,             \* the transport objects constructed so far, by index
  servers,        \* number of createServer() calls so far
  cleanups,       \* cleanups[sid]: number of cleanup(sid) calls so far
  eventLog,       \* eventLog[t]: events stored in transport t's event store
  suspended,      \* handlers suspended at an await
  cur,            \* the request whose handler runs next
  resp            \* what the last handler block gave its client

\* the state of one call of the trigger-enhanced-sampling tool
\* (src/tools/trigger-enhanced-sampling.ts)
VARIABLES
  clientCapabilities,   \* what the connected client advertised
  validatedArgs,        \* the parsed arguments of the call
  pc,                   \* where the tool callback stands
  iteration,            \* the loop variable of the agent loop
  conversationHistory,  \* the messages of the run
  iterationResults,     \* one record per round performed
  requests,             \* the sampling requests sent so far, in order
  samplingResults,      \* the results sendRequest resolved with, in order
  callToolResult        \* what the callback returned

\* calls of the tool that are in progress together: each call of the
\* callback has its own locals (the variables above, validatedArgs to
\* callToolResult); those of the call the event loop is running or ran last
\* are in the variables, those of the other call are set aside
VARIABLES
  run,                  \* the call whose locals are in the variables
  parked                \* the locals of the other call, if there is one

transportVars == <<entry, transports, tr, servers, cleanups, eventLog,
                   suspended, cur, resp>>

agentVars == <<clientCapabilities, validatedArgs, pc, iteration,
               conversationHistory, iterationResults, requests,
               samplingResults, callToolResult, run, parked>>

vars == <<transportVars, agentVars>>

\* the routes each entry point registers
Routes(e) ==
  IF e = "streamableHttp" THEN {"POST", "GET", "DELETE"}
  ELSE IF e = "sse" THEN {"GETSSE", "POSTMSG"}
  ELSE {}

\* ------------------------------------------------------------- requests
NoRequest == [op |-> "none", hdr |-> Absent, init |-> FALSE, last |-> Absent]

\* op: the route; hdr: the mcp-session-id header (or the sessionId query
\* parameter); init: the body is an initialize request (POST /mcp only);
\* last: the last-event-id header (GET /mcp only), Absent or a marker
Requests ==
  [op : {"POST"}, hdr : {Absent, Empty}, init : {TRUE}, last : {Absent}]
    \cup [op : {"POST", "GET", "DELETE", "GETSSE", "POSTMSG"},
          hdr : HeaderValues, init : {FALSE}, last : {Absent}]
    \cup [op : {"GET"}, hdr : SessionIds, init : {FALSE}, last : 0..MaxEvents]

\* the request makes its handler construct a transport object
Constructs(q) == q.op \in {"POST", "GETSSE"} /\ Falsy(q.hdr)

\* ------------------------------------------------------------ responses
\* kind, status, code: the reply; t: the transport object that wrote it (0:
\* the handler itself wrote it); req: the request it answers
NoResp ==
  [kind |-> "none", status |-> 0, code |-> 0, t |-> 0, req |-> NoRequest]

\* res.status(status).json({jsonrpc: "2.0", error: {code, message}, id})
JsonRpcError(q, status, code) ==
  [kind |-> "jsonrpc", status |-> status, code |-> code, t |-> 0, req |-> q]

\* res.status(400).json({error: "invalid_session", error_description})
InvalidSession(q) ==
  [kind |-> "json", status |-> 400, code |-> 0, t |-> 0, req |-> q]

\* the reply is written by transport t (handleRequest / handlePostMessage)
BySdk(q, t, status, code) ==
  [kind |-> "sdk", status |-> status, code |-> code, t |-> t, req |-> q]

\* the event stream of a new push-only session is open on transport t
StreamOpen(q, t) ==
  [kind |-> "stream", status |-> 200, code |-> 0, t |-> t, req |-> q]

\* the promise of the async handler rejects: nothing in the handler caught it
Escaped(q) ==
  [kind |-> "exception", status |-> 0, code |-> 0, t |-> 0, req |-> q]

\* the handler returned without writing anything to its response
Unanswered(q) ==
  [kind |-> "none", status |-> 0, code |-> 0, t |-> 0, req |-> q]

\* ---------------------------------------------------- transport objects
NewTransport(sid) ==
  [sessionId |-> sid, conn |-> "pending", closed |-> FALSE, onclose |-> FALSE]

\* randomUUID(): an identifier no other transport object has
RandomUUID(t) == t

Remove(map, sid) == [s \in DOMAIN map \ {sid} |-> map[s]]

Put(map, sid, t) == (sid :> t) @@ map

\* ------------------------------------------- trigger-enhanced-sampling.ts
\* an optional field of a JavaScript object: absent, or holding a value
Undefined == <<>>

Some(v) == <<v>>

\* no call of the tool is in progress and none has been made
NoToolCall ==
  /\ clientCapabilities = {}
  /\ validatedArgs = Undefined
  /\ pc = "off"
  /\ iteration = 0
  /\ conversationHistory = <<>>
  /\ iterationResults = <<>>
  /\ requests = <<>>
  /\ samplingResults = <<>>
  /\ callToolResult = Undefined
  /\ run = 1
  /\ parked = Undefined

Init ==
  /\ entry \in {"streamableHttp", "sse"}
  /\ transports = <<>>
  /\ tr = <<>>
  /\ servers = 0
  /\ cleanups = [s \in SessionIds |-> 0]
  /\ eventLog = <<>>
  /\ suspended = {}
  /\ cur = NoRequest
  /\ resp = NoResp
  /\ NoToolCall

\* (mutation) awaiting the reply to a sampling request holds the process:
\* no request is taken up while a call of the tool awaits
ArriveUnlessAwaiting ==
  /\ pc # "await"
  /\ parked = Undefined \/ parked[1].pc # "await"
  /\ cur = NoRequest
  /\ \E q \in Requests :
       /\ q.op \in Routes(entry)
       /\ Constructs(q) => Len(tr) < MaxTransports
       /\ (Constructs(q) \/ q.op = "GETSSE") => servers < MaxServers
       /\ cur' = q
  /\ resp' = NoResp
  /\ UNCHANGED <<entry, transports, tr, servers, cleanups, eventLog,
                 suspended>>
  /\ UNCHANGED agentVars

\* A request reaches the server; its handler has not run yet.  (The bounds
\* on constructed objects are enforced here: a request that would construct
\* one more than the bound is not sent.)
Arrive ==
  /\ cur = NoRequest
  /\ \E q \in Requests :
       /\ q.op \in Routes(entry)
       /\ Constructs(q) => Len(tr) < MaxTransports
       /\ (Constructs(q) \/ q.op = "GETSSE") => servers < MaxServers
       /\ cur' = q
  /\ resp' = NoResp
  /\ UNCHANGED <<entry, transports, tr, servers, cleanups, eventLog,
                 suspended>>
  /\ UNCHANGED agentVars

\* a suspended handler: its request and its local variable `transport`
Handler(q, t) == [req |-> q, t |-> t]

\* ------------------------------------------------- streamableHttp.ts

\* (mutation) the callback stores under the handler's own `sessionId`, the
\* header of the request, which is undefined on this branch
OnSessionInitializedOuterId(sessionId, t) ==
  transports' = Put(transports, Absent, t)

\* onsessioninitialized: (sessionId) => { transports.set(sessionId, transport) }
OnSessionInitialized(sessionId, t) ==
  transports' = Put(transports, sessionId, t)

\* (mutation) the close handler forgets transports.delete(sid)
StreamableOnCloseNoDelete(t) ==
  LET sid == tr[t].sessionId IN
  IF ~Falsy(sid) /\ sid \in DOMAIN transports
  THEN /\ cleanups' = [cleanups EXCEPT ![sid] = @ + 1]
       /\ UNCHANGED transports
  ELSE UNCHANGED <<transports, cleanups>>

\* (mutation) the close handler forgets cleanup(sid)
StreamableOnCloseNoCleanup(t) ==
  LET sid == tr[t].sessionId IN
  IF ~Falsy(sid) /\ sid \in DOMAIN transports
  THEN /\ transports' = Remove(transports, sid)
       /\ UNCHANGED cleanups
  ELSE UNCHANGED <<transports, cleanups>>

\* server.server.onclose of the resumable variant
\* (mutation) the close handler empties the registry
StreamableOnCloseClearsRegistry(t) ==
  LET sid == tr[t].sessionId IN
  IF ~Falsy(sid) /\ sid \in DOMAIN transports
  THEN /\ transports' = <<>>
       /\ cleanups' = [cleanups EXCEPT ![sid] = @ + 1]
  ELSE UNCHANGED <<transports, cleanups>>

StreamableOnClose(t) ==
  LET sid == tr[t].sessionId IN
  IF ~Falsy(sid) /\ sid \in DOMAIN transports
  THEN /\ transports' = Remove(transports, sid)
       /\ cleanups' = [cleanups EXCEPT ![sid] = @ + 1]
  ELSE UNCHANGED <<transports, cleanups>>

\* (mutation) no final else: every request without a registered session
\* starts a new one
PostBranchNoInvalid(sessionId) ==
  IF ~Falsy(sessionId) /\ sessionId \in DOMAIN transports THEN "reuse"
  ELSE "new"

\* (mutation) no reuse branch: a request with a session header is refused
PostBranchNoReuse(sessionId) ==
  IF Falsy(sessionId) THEN "new" ELSE "invalid"

\* the if / else if / else of app.post("/mcp")
PostBranch(sessionId) ==
  IF ~Falsy(sessionId) /\ sessionId \in DOMAIN transports THEN "reuse"
  ELSE IF Falsy(sessionId) THEN "new"
  ELSE "invalid"

\* the guard of the 400 reply of app.get("/mcp") and app.delete("/mcp")
NoValidSession(sessionId) ==
  Falsy(sessionId) \/ sessionId \notin DOMAIN transports

\* app.post("/mcp"), up to its first await
PostMcp ==
  /\ cur.op = "POST"
  /\ cur' = NoRequest
  /\ IF PostBranch(cur.hdr) = "reuse"
     THEN \* reuse the registered transport: await transport.handleRequest,
          \* which replies, or throws into the catch block
          /\ \/ resp' = BySdk(cur, transports[cur.hdr], 200, 0)
             \/ resp' = JsonRpcError(cur, 500, InternalErrorCode)
          /\ UNCHANGED <<entry, transports, tr, servers, cleanups,
                         eventLog, suspended>>
     ELSE IF PostBranch(cur.hdr) = "new"
     THEN \* createServer, new transport, onclose set, await server.connect
          /\ servers' = servers + 1
          /\ tr' = Append(tr, NewTransport(Absent))
          /\ eventLog' = Append(eventLog, 0)
          /\ suspended' = suspended \cup {Handler(cur, Len(tr) + 1)}
          /\ resp' = NoResp
          /\ UNCHANGED <<entry, transports, cleanups>>
     ELSE /\ resp' = JsonRpcError(cur, 400, BadRequestCode)
          /\ UNCHANGED <<entry, transports, tr, servers, cleanups,
                         eventLog, suspended>>
  /\ UNCHANGED agentVars

\* server.connect resolved; transport.handleRequest then runs the request:
\* an initialize request gives the transport its session id and calls
\* onsessioninitialized, any other request is refused by the transport
PostMcpConnected(h) ==
  /\ cur = NoRequest
  /\ entry = "streamableHttp"
  /\ h \in suspended /\ h.req.op = "POST"
  /\ suspended' = suspended \ {h}
  /\ IF h.req.init
     THEN LET sid == RandomUUID(h.t) IN
          /\ tr' = [tr EXCEPT ![h.t].conn = "connected", ![h.t].sessionId = sid]
          /\ OnSessionInitialized(sid, h.t)
          /\ resp' = BySdk(h.req, h.t, 200, 0)
     ELSE /\ tr' = [tr EXCEPT ![h.t].conn = "connected"]
          /\ resp' = BySdk(h.req, h.t, 400, BadRequestCode)
          /\ UNCHANGED transports
  /\ UNCHANGED <<entry, servers, cleanups, eventLog, cur>>
  /\ UNCHANGED agentVars

\* server.connect rejected: the catch block answers 500
PostMcpConnectFailed(h) ==
  /\ cur = NoRequest
  /\ entry = "streamableHttp"
  /\ h \in suspended /\ h.req.op = "POST"
  /\ suspended' = suspended \ {h}
  /\ tr' = [tr EXCEPT ![h.t].conn = "failed"]
  /\ resp' = JsonRpcError(h.req, 500, InternalErrorCode)
  /\ UNCHANGED <<entry, transports, servers, cleanups, eventLog, cur>>
  /\ UNCHANGED agentVars

\* app.get("/mcp")
GetMcp ==
  /\ cur.op = "GET"
  /\ cur' = NoRequest
  /\ IF NoValidSession(cur.hdr)
     THEN resp' = JsonRpcError(cur, 400, BadRequestCode)
     ELSE \* await transport.handleRequest: no try/catch around it
          \/ resp' = BySdk(cur, transports[cur.hdr], 200, 0)
          \/ resp' = Escaped(cur)
  /\ UNCHANGED <<entry, transports, tr, servers, cleanups, eventLog,
                 suspended>>
  /\ UNCHANGED agentVars

\* app.delete("/mcp"), up to the point where the transport has closed itself
\* (handleRequest of a DELETE closes the transport, which fires onclose)
\* and has still to write the acknowledgement
DeleteMcp ==
  /\ cur.op = "DELETE"
  /\ cur' = NoRequest
  /\ IF NoValidSession(cur.hdr)
     THEN /\ resp' = JsonRpcError(cur, 400, BadRequestCode)
          /\ UNCHANGED <<transports, tr, cleanups, suspended>>
     ELSE LET t == transports[cur.hdr] IN
          /\ tr' = [tr EXCEPT ![t].closed = TRUE]
          /\ StreamableOnClose(t)
          /\ suspended' = suspended \cup {Handler(cur, t)}
          /\ resp' = NoResp
  /\ UNCHANGED <<entry, servers, eventLog>>
  /\ UNCHANGED agentVars

\* the transport acknowledges the termination
DeleteMcpAck(h) ==
  /\ cur = NoRequest
  /\ entry = "streamableHttp"
  /\ h \in suspended /\ h.req.op = "DELETE"
  /\ suspended' = suspended \ {h}
  /\ resp' = BySdk(h.req, h.t, 200, 0)
  /\ UNCHANGED <<entry, transports, tr, servers, cleanups, eventLog, cur>>
  /\ UNCHANGED agentVars

\* writing the acknowledgement throws: the catch block answers 500
DeleteMcpFailed(h) ==
  /\ cur = NoRequest
  /\ entry = "streamableHttp"
  /\ h \in suspended /\ h.req.op = "DELETE"
  /\ suspended' = suspended \ {h}
  /\ resp' = JsonRpcError(h.req, 500, InternalErrorCode)
  /\ UNCHANGED <<entry, transports, tr, servers, cleanups, eventLog, cur>>
  /\ UNCHANGED agentVars

\* the protocol server of a connected resumable transport closes
StreamableClose(t) ==
  /\ cur = NoRequest
  /\ t \in 1..Len(tr)
  /\ entry = "streamableHttp"
  /\ tr[t].conn = "connected" /\ ~tr[t].closed
  /\ tr' = [tr EXCEPT ![t].closed = TRUE]
  /\ StreamableOnClose(t)
  /\ UNCHANGED <<entry, servers, eventLog, suspended, cur, resp>>
  /\ UNCHANGED agentVars

\* the close callback of the protocol server runs again for a transport
\* that has closed (the transport reports its close once more): the handler
\* of lines 116-125 runs again
StreamableCloseAgain(t) ==
  /\ cur = NoRequest
  /\ t \in 1..Len(tr)
  /\ entry = "streamableHttp"
  /\ tr[t].conn = "connected" /\ tr[t].closed
  /\ StreamableOnClose(t)
  /\ UNCHANGED <<entry, tr, servers, eventLog, suspended, cur, resp>>
  /\ UNCHANGED agentVars

\* `for (const sessionId in transports)`: the enumerable string-keyed
\* properties of the object.  The entries of a Map are not properties of
\* it, and the registry is given no property anywhere: there is none.
EnumerableKeys(map) == {}

\* process.on("SIGINT"): for each key the loop finds, transport.close(),
\* which runs the close handler, and transports.delete; then
\* process.exit(0).  The signal is handled between two handler blocks; what
\* was suspended is never resumed.
Sigint ==
  /\ entry = "streamableHttp"
  /\ cur = NoRequest
  /\ LET keys == EnumerableKeys(transports)
         closing == {transports[sid] : sid \in keys}
     IN  /\ tr' = [t \in 1..Len(tr) |->
                     IF t \in closing THEN [tr[t] EXCEPT !.closed = TRUE]
                     ELSE tr[t]]
         /\ transports' = [sid \in DOMAIN transports \ keys |-> transports[sid]]
         /\ cleanups' = [sid \in DOMAIN cleanups |->
                           IF sid \in keys THEN cleanups[sid] + 1
                           ELSE cleanups[sid]]
  /\ entry' = "exited"
  /\ UNCHANGED <<servers, eventLog, suspended, cur, resp>>
  /\ UNCHANGED agentVars

\* the server sends a message on an open session: the transport stores it
\* in the session's event store (eventStore.storeEvent)
StoreEvent(t) ==
  /\ cur = NoRequest
  /\ t \in 1..Len(tr)
  /\ entry = "streamableHttp"
  /\ tr[t].conn = "connected" /\ ~tr[t].closed
  /\ ~Falsy(tr[t].sessionId)
  /\ eventLog[t] < MaxEvents
  /\ eventLog' = [eventLog EXCEPT ![t] = @ + 1]
  /\ UNCHANGED <<entry, transports, tr, servers, cleanups, suspended,
                 cur, resp>>
  /\ UNCHANGED agentVars

\* ------------------------------------------------------------ sse.ts

\* server.server.onclose of the push-only variant
SseOnClose(t) ==
  LET sessionId == tr[t].sessionId IN
  /\ transports' = Remove(transports, sessionId)
  /\ cleanups' = [cleanups EXCEPT ![sessionId] = @ + 1]

\* app.get("/sse"), up to its await
GetSse ==
  /\ cur.op = "GETSSE"
  /\ cur' = NoRequest
  /\ servers' = servers + 1
  /\ IF ~Falsy(cur.hdr)
     THEN \* transports.get(sessionId), then transport.sessionId is read:
          \* a TypeError when the get gave undefined; no reply otherwise
          /\ resp' = IF cur.hdr \in DOMAIN transports
                     THEN Unanswered(cur)
                     ELSE Escaped(cur)
          /\ UNCHANGED <<transports, tr, eventLog, suspended>>
     ELSE LET t == Len(tr) + 1 IN
          /\ tr' = Append(tr, NewTransport(RandomUUID(t)))
          /\ eventLog' = Append(eventLog, 0)
          /\ transports' = Put(transports, RandomUUID(t), t)
          /\ suspended' = suspended \cup {Handler(cur, t)}
          /\ resp' = NoResp
  /\ UNCHANGED <<entry, cleanups>>
  /\ UNCHANGED agentVars

\* server.connect resolved: the handler installs server.server.onclose
GetSseConnected(h) ==
  /\ cur = NoRequest
  /\ h \in suspended /\ h.req.op = "GETSSE"
  /\ suspended' = suspended \ {h}
  /\ tr' = [tr EXCEPT ![h.t].conn = "connected", ![h.t].onclose = TRUE]
  /\ resp' = StreamOpen(h.req, h.t)
  /\ UNCHANGED <<entry, transports, servers, cleanups, eventLog, cur>>
  /\ UNCHANGED agentVars

\* server.connect rejected: nothing in the handler catches it
GetSseConnectFailed(h) ==
  /\ cur = NoRequest
  /\ h \in suspended /\ h.req.op = "GETSSE"
  /\ suspended' = suspended \ {h}
  /\ tr' = [tr EXCEPT ![h.t].conn = "failed"]
  /\ resp' = Escaped(h.req)
  /\ UNCHANGED <<entry, transports, servers, cleanups, eventLog, cur>>
  /\ UNCHANGED agentVars

\* (mutation) no `if (transport)`: handlePostMessage is called on undefined
PostMessageUnchecked ==
  /\ cur.op = "POSTMSG"
  /\ cur' = NoRequest
  /\ resp' = IF cur.hdr \in DOMAIN transports
             THEN BySdk(cur, transports[cur.hdr], 202, 0)
             ELSE Escaped(cur)
  /\ UNCHANGED <<entry, transports, tr, servers, cleanups, eventLog,
                 suspended>>
  /\ UNCHANGED agentVars

\* app.post("/message")
PostMessage ==
  /\ cur.op = "POSTMSG"
  /\ cur' = NoRequest
  /\ resp' = IF cur.hdr \in DOMAIN transports
             THEN BySdk(cur, transports[cur.hdr], 202, 0)
             ELSE InvalidSession(cur)
  /\ UNCHANGED <<entry, transports, tr, servers, cleanups, eventLog,
                 suspended>>
  /\ UNCHANGED agentVars

\* the client's event stream closes: the close callback of the protocol
\* server runs the handler installed in server.server.onclose, if any
SseClose(t) ==
  /\ cur = NoRequest
  /\ t \in 1..Len(tr)
  /\ entry = "sse"
  /\ tr[t].conn \in {"pending", "connected"}
  /\ ~tr[t].closed
  /\ tr' = [tr EXCEPT ![t].closed = TRUE]
  /\ IF tr[t].onclose
     THEN SseOnClose(t)
     ELSE UNCHANGED <<transports, cleanups>>
  /\ UNCHANGED <<entry, servers, eventLog, suspended, cur, resp>>
  /\ UNCHANGED agentVars

\* the close callback of the protocol server runs again for a transport
\* that has closed (the transport reports its close once more): the handler
\* of lines 101-106, once it is installed, runs again
SseCloseAgain(t) ==
  /\ cur = NoRequest
  /\ t \in 1..Len(tr)
  /\ entry = "sse"
  /\ tr[t].closed /\ tr[t].onclose
  /\ cleanups[tr[t].sessionId] < MaxCleanups
  /\ SseOnClose(t)
  /\ UNCHANGED <<entry, tr, servers, eventLog, suspended, cur, resp>>
  /\ UNCHANGED agentVars

Next ==
  \/ Arrive
  \/ PostMcp
  \/ GetMcp
  \/ DeleteMcp
  \/ GetSse
  \/ PostMessage
  \/ \E h \in suspended : PostMcpConnected(h)
  \/ \E h \in suspended : PostMcpConnectFailed(h)
  \/ \E h \in suspended : DeleteMcpAck(h)
  \/ \E h \in suspended : DeleteMcpFailed(h)
  \/ \E h \in suspended : GetSseConnected(h)
  \/ \E h \in suspended : GetSseConnectFailed(h)
  \/ \E t \in 1..Len(tr) : StreamableClose(t)
  \/ \E t \in 1..Len(tr) : StoreEvent(t)
  \/ \E t \in 1..Len(tr) : SseClose(t)
  \/ \E t \in 1..Len(tr) : StreamableCloseAgain(t)
  \/ \E t \in 1..Len(tr) : SseCloseAgain(t)
  \/ Sigint

Spec == Init /\ [][Next]_vars

\* =====================================================================
\* The trigger-enhanced-sampling tool: src/tools/trigger-enhanced-sampling.ts
\* =====================================================================
\* One call of the tool callback.  The callback is an async function: every
\* action below is one synchronous block of it, from its start (or from the
\* resumption of `await extra.sendRequest`) to the next await or to its
\* return.  The client that answers the sampling requests is the
\* environment: it answers with any result the schema passed to
\* sendRequest accepts, or the request fails.

\* ---------------------------------------------------------------- bounds
MaxRounds == 2    \* largest whole maxIterations a caller passes
MaxBlocks == 2    \* content blocks in an array-valued reply

\* maxIterations is z.number(): any number, whole or not.  A number is kept
\* as a fraction num/den, and the loop's two comparisons are made exactly.
Number(num, den) == [num |-> num, den |-> den]

\* (mutation) the loop test is iteration <= maxIterations
AtMost(i, m) == i * m.den <= m.num

\* iteration < maxIterations
LessThan(i, m) == i * m.den < m.num

\* iteration === maxIterations - 1
IsLastIteration(i, m) == i * m.den = m.num - m.den

\* the values of maxIterations the callers of the model pass: the whole
\* numbers -1..MaxRounds, and 1/2 and 3/2
MaxIterationsValues ==
  {Number(n, 1) : n \in -1..MaxRounds} \cup {Number(1, 2), Number(3, 2)}

\* z.enum(["auto", "required", "none"])
ToolChoiceModes == {"auto", "required", "none"}

\* TriggerEnhancedSamplingSchema.parse(args): the fields the control flow
\* reads (prompt, maxTokens and systemPrompt are passed through unread)
TriggerEnhancedSamplingSchema ==
  [includeTools : BOOLEAN, toolChoice : ToolChoiceModes,
   maxIterations : MaxIterationsValues]

\* the names of sampleTools, in order
sampleTools == <<"get_weather", "calculate", "get_time">>

\* ------------------------------------------------------- content blocks
\* one record shape for every block type; a field a type does not have is
\* "" (0 for identifiers)
Block(type, text, id, name, input, toolUseId) ==
  [type |-> type, text |-> text, id |-> id, name |-> name, input |-> input,
   toolUseId |-> toolUseId]

\* {type: "text", text}
TextContent(text) == Block("text", text, 0, "", "", 0)

\* {type: "image", ...}: a block that is neither text nor a tool invocation
ImageContent == Block("image", "", 0, "", "", 0)

\* {type: "tool_use", id, name, input}; input is the one argument the mock
\* tools read (expression, city or timezone)
ToolUseContent(id, name, input) == Block("tool_use", "", id, name, input, 0)

\* {type: "tool_result", toolUseId, content: [{type: "text", text}]}
ToolResultContent(toolUseId, text) ==
  Block("tool_result", text, 0, "", "", toolUseId)

\* SamplingMessage["content"]: one block, or an array of blocks
Single(block) == [isArray |-> FALSE, blocks |-> <<block>>]

Array(blocks) == [isArray |-> TRUE, blocks |-> blocks]

\* the prompt of the call
Prompts == <<"prompt", "prompt2">>
Prompt == Prompts[run]

\* {role, content}
Message(role, content) == [role |-> role, content |-> content]

\* ------------------------------------------- what the client can answer
\* the texts and the tool invocations the client's replies are made of
Texts == {"a", "b"}

\* the invocations that come several to a reply
ArrayToolUses ==
  {[name |-> "calculate", input |-> "1+1"], [name |-> "bogus", input |-> ""]}

\* those, and the invocations that come alone
ToolUses ==
  ArrayToolUses
    \cup {[name |-> "get_weather", input |-> "Paris"],
          [name |-> "get_time", input |-> "UTC"],
          [name |-> "calculate", input |-> "1+"],
          [name |-> "calculate", input |-> "1e3"],
          [name |-> "calculate", input |-> ""]}

StopReasons == {"endTurn", "toolUse"}

\* the blocks an array-valued reply is made of, before identifiers are given
ArrayBlocks ==
  {TextContent(s) : s \in Texts}
    \cup {ToolUseContent(0, u.name, u.input) : u \in ArrayToolUses}

\* the invocations of one reply get distinct identifiers
WithIds(blocks) ==
  [i \in 1..Len(blocks) |->
     IF blocks[i].type = "tool_use" THEN [blocks[i] EXCEPT !.id = i]
     ELSE blocks[i]]

\* the contents each result schema accepts: CreateMessageResultSchema one
\* text or media block, CreateMessageResultWithToolsSchema one block of any
\* type or an array of blocks
Contents(schema) ==
  {Single(b) : b \in {TextContent(s) : s \in Texts \cup {""}} \cup {ImageContent}}
    \cup IF schema = "CreateMessageResultWithToolsSchema"
         THEN {Single(ToolUseContent(1, u.name, u.input)) : u \in ToolUses}
                \cup {Array(WithIds(bs)) :
                        bs \in UNION {[1..k -> ArrayBlocks] : k \in 0..MaxBlocks}}
         ELSE {}

\* the results sendRequest can resolve with
Results(schema) == [stopReason : StopReasons, content : Contents(schema)]

\* ------------------------------------------------------ executeMockTool
\* /^[\d+\-*/().%\s]+$/.test(expr)
AllowedChars ==
  {"0", "1", "2", "3", "4", "5", "6", "7", "8", "9",
   "+", "-", "*", "/", "(", ")", ".", "%", " ", "\t", "\n"}

\* (mutation) the expression is evaluated without the test of its characters
IsBasicMathUnchecked(expr) == TRUE

IsBasicMath(expr) ==
  /\ Len(expr) > 0
  /\ \A i \in 1..Len(expr) : SubSeq(expr, i, i) \in AllowedChars

\* Function(`"use strict"; return (${expr})`)() of the JavaScript engine,
\* for the expressions the model's clients send: what it returns, printed
\* as `${result}`; an expression that is not here throws
Evaluates == [e \in {"1+1", "1e3"} |-> IF e = "1+1" THEN "2" ELSE "1000"]

\* the timezones Date.prototype.toLocaleString accepts
Timezones == {"UTC"}

\* (mutation) an unknown tool name is an error of the executor
ExecuteMockToolStrict(name, input, draw) ==
  CASE name = "get_weather" ->
         "{city:" \o input \o ",weather:" \o draw \o "}"
    [] name = "calculate" ->
         IF ~IsBasicMath(input)
         THEN "Error: Invalid expression. Only basic math operations allowed."
         ELSE IF input \in DOMAIN Evaluates
         THEN "Result: " \o Evaluates[input]
         ELSE "Error: Could not evaluate expression"
    [] name = "get_time" ->
         IF input \in Timezones THEN draw ELSE "Error: Invalid timezone"
    [] OTHER -> "Error: tool not found"

\* executeMockTool(name, input); draw is what Math.random and the clock
\* give this call
ExecuteMockTool(name, input, draw) ==
  CASE name = "get_weather" ->
         "{city:" \o input \o ",weather:" \o draw \o "}"
    [] name = "calculate" ->
         IF ~IsBasicMath(input)
         THEN "Error: Invalid expression. Only basic math operations allowed."
         ELSE IF input \in DOMAIN Evaluates
         THEN "Result: " \o Evaluates[input]
         ELSE "Error: Could not evaluate expression"
    [] name = "get_time" ->
         IF input \in Timezones THEN draw ELSE "Error: Invalid timezone"
    [] OTHER -> "Unknown tool: " \o name

\* the outcomes of Math.random and of the clock the model draws from
Draws == {"x", "y"}

\* ----------------------------------------------------- extractToolCalls
IsToolUse(block) == block.type = "tool_use"

ExtractToolCalls(content) ==
  IF content.isArray THEN SelectSeq(content.blocks, IsToolUse)
  ELSE IF content.blocks[1].type = "tool_use" THEN <<content.blocks[1]>>
  ELSE <<>>

\* ------------------------------------------------- the text of a reply
IsText(block) == block.type = "text"

\* Array.prototype.join("\n") of the texts of the blocks
RECURSIVE JoinLines(_)
JoinLines(blocks) ==
  IF blocks = <<>> THEN ""
  ELSE IF Len(blocks) = 1 THEN blocks[1].text
  ELSE blocks[1].text \o "\n" \o JoinLines(Tail(blocks))

\* lines 314-322: the text blocks of an array joined, the text of a single
\* text block, "" for anything else
TextResponse(content) ==
  IF content.isArray THEN JoinLines(SelectSeq(content.blocks, IsText))
  ELSE IF content.blocks[1].type = "text" THEN content.blocks[1].text
  ELSE ""

\* ---------------------------------------------------- the tool callback
\* the tool is registered only for a client that advertises sampling
ClientSupportsSampling == "sampling" \in clientCapabilities

\* (mutation) the records are numbered like the loop variable, from 0
IterationResultFromZero(n, stopReason, toolCalls, textResponse) ==
  [iteration |-> n - 1, stopReason |-> stopReason, toolCalls |-> toolCalls,
   textResponse |-> textResponse]

\* one entry of iterationResults
IterationResult(n, stopReason, toolCalls, textResponse) ==
  [iteration |-> n, stopReason |-> stopReason, toolCalls |-> toolCalls,
   textResponse |-> textResponse]

\* (mutation) the tool choice of the request is auto whatever the caller
\* asked for
SamplingRequestAutoMode(i, messages, args) ==
  [messages |-> messages,
   tools |-> IF IsLastIteration(i, args.maxIterations) THEN Undefined
             ELSE Some(sampleTools),
   toolChoice |-> IF IsLastIteration(i, args.maxIterations) THEN Undefined
                  ELSE Some([mode |-> "auto"]),
   schema |-> IF IsLastIteration(i, args.maxIterations)
              THEN "CreateMessageResultSchema"
              ELSE "CreateMessageResultWithToolsSchema"]

\* (mutation) the request carries the newest message only
SamplingRequestNewestOnly(i, messages, args) ==
  [messages |-> <<messages[Len(messages)]>>,
   tools |-> IF IsLastIteration(i, args.maxIterations) THEN Undefined
             ELSE Some(sampleTools),
   toolChoice |-> IF IsLastIteration(i, args.maxIterations) THEN Undefined
                  ELSE Some([mode |-> args.toolChoice]),
   schema |-> IF IsLastIteration(i, args.maxIterations)
              THEN "CreateMessageResultSchema"
              ELSE "CreateMessageResultWithToolsSchema"]

\* the params of the sampling request of loop iteration i (lines 228-245)
\* and the result schema passed with it (lines 250-252)
SamplingRequest(i, messages, args) ==
  [messages |-> messages,
   tools |-> IF IsLastIteration(i, args.maxIterations) THEN Undefined
             ELSE Some(sampleTools),
   toolChoice |-> IF IsLastIteration(i, args.maxIterations) THEN Undefined
                  ELSE Some([mode |-> args.toolChoice]),
   schema |-> IF IsLastIteration(i, args.maxIterations)
              THEN "CreateMessageResultSchema"
              ELSE "CreateMessageResultWithToolsSchema"]

\* (mutation) the request of the branch without tools offers the catalog
BasicRequestWithTools ==
  [messages |-> <<Message("user", Single(TextContent(Prompt)))>>,
   tools |-> Some(sampleTools), toolChoice |-> Some([mode |-> "auto"]),
   schema |-> "CreateMessageResultSchema"]

\* the request of the branch without tools (lines 178-195)
BasicRequest ==
  [messages |-> <<Message("user", Single(TextContent(Prompt)))>>,
   tools |-> Undefined, toolChoice |-> Undefined,
   schema |-> "CreateMessageResultSchema"]

\* a JavaScript string or undefined is truthy: defined and not ""
Truthy(text) == text # Undefined /\ text[1] # ""

\* lastResult?.textResponse || "No final response"
FinalResponse(results) ==
  IF results # <<>> /\ Truthy(results[Len(results)].textResponse)
  THEN results[Len(results)].textResponse[1]
  ELSE "No final response"

\* one entry of "--- Iteration Details ---": the Tool Calls lines are
\* written when toolCalls is set, the Response line when textResponse is
\* truthy (the model's texts are shorter than the 200 characters shown)
IterationDetail(r) ==
  [iteration |-> r.iteration, stopReason |-> r.stopReason,
   toolCalls |-> r.toolCalls,
   response |-> IF Truthy(r.textResponse) THEN r.textResponse ELSE Undefined]

\* the CallToolResult of the agent loop (lines 329-369): what its text is
\* made of.  isError is never set.
AgentLoopResult(results, toolChoice) ==
  [kind |-> "agent", isError |-> FALSE,
   totalIterations |-> Len(results), toolChoiceMode |-> toolChoice,
   iterationDetails |-> [j \in 1..Len(results) |-> IterationDetail(results[j])],
   finalResponse |-> FinalResponse(results),
   result |-> Undefined]

\* the CallToolResult of the branch without tools (lines 197-208)
BasicResult(result) ==
  [kind |-> "basic", isError |-> FALSE,
   totalIterations |-> 0, toolChoiceMode |-> "",
   iterationDetails |-> <<>>, finalResponse |-> "",
   result |-> Some(result)]

\* the reply makes the loop execute tools and go round again (lines 261-264)
IsToolTurn(result) ==
  result.stopReason = "toolUse" /\ Len(ExtractToolCalls(result.content)) > 0

\* (mutation) every call of a turn is executed with the input of the first
ToolResultsSharedInput(toolCalls, draws) ==
  [j \in 1..Len(toolCalls) |->
     [name |-> toolCalls[j].name, input |-> toolCalls[j].input,
      result |-> ExecuteMockTool(toolCalls[j].name, toolCalls[1].input,
                                 draws[j])]]

\* toolResults of a turn (lines 284-293); draws[j] is what the j-th call
\* gets from Math.random and the clock
ToolResults(toolCalls, draws) ==
  [j \in 1..Len(toolCalls) |->
     [name |-> toolCalls[j].name, input |-> toolCalls[j].input,
      result |-> ExecuteMockTool(toolCalls[j].name, toolCalls[j].input,
                                 draws[j])]]

\* (mutation) a result is tagged with its position among the results, not
\* with the identifier of its invocation
ToolResultBlocksByIndex(toolCalls, toolResults) ==
  [j \in 1..Len(toolCalls) |-> ToolResultContent(j, toolResults[j].result)]

\* toolResultContent of a turn (lines 294-298)
ToolResultBlocks(toolCalls, toolResults) ==
  [j \in 1..Len(toolCalls) |->
     ToolResultContent(toolCalls[j].id, toolResults[j].result)]

\* (mutation) every result is pushed as a user message of its own
TurnMessagesOnePerResult(result, toolCalls, toolResults) ==
  <<Message("assistant", result.content)>>
    \o [j \in 1..Len(toolCalls) |->
          Message("user",
                  Array(<<ToolResultBlocks(toolCalls, toolResults)[j]>>))]

\* (mutation) the results are pushed before the assistant message
TurnMessagesResultsFirst(result, toolCalls, toolResults) ==
  <<Message("user", Array(ToolResultBlocks(toolCalls, toolResults))),
    Message("assistant", result.content)>>

\* the messages a tool turn pushes onto conversationHistory (lines 266-269
\* and 302-305)
TurnMessages(result, toolCalls, toolResults) ==
  <<Message("assistant", result.content),
    Message("user", Array(ToolResultBlocks(toolCalls, toolResults)))>>

\* (mutation) running out of iterations is an error thrown to the caller
LoopFromThrowingAtLimit(i, history, results, args) ==
  /\ iteration' = i
  /\ conversationHistory' = history
  /\ iterationResults' = results
  /\ IF LessThan(i, args.maxIterations)
     THEN /\ requests' = Append(requests, SamplingRequest(i, history, args))
          /\ pc' = "await"
          /\ UNCHANGED callToolResult
     ELSE /\ pc' = "thrown"
          /\ UNCHANGED <<requests, callToolResult>>

\* (mutation) the request is built from the conversation as it was before
\* the turn's messages were pushed
LoopFromStaleHistory(i, history, results, args) ==
  /\ iteration' = i
  /\ conversationHistory' = history
  /\ iterationResults' = results
  /\ IF LessThan(i, args.maxIterations)
     THEN /\ requests' =
               Append(requests,
                      SamplingRequest(i, IF i = 0 THEN history
                                         ELSE conversationHistory, args))
          /\ pc' = "await"
          /\ UNCHANGED callToolResult
     ELSE /\ pc' = "returned"
          /\ callToolResult' = Some(AgentLoopResult(results, args.toolChoice))
          /\ UNCHANGED requests

\* the for loop from its test to `await extra.sendRequest`, or, when the
\* test fails, to the return of the callback
LoopFrom(i, history, results, args) ==
  /\ iteration' = i
  /\ conversationHistory' = history
  /\ iterationResults' = results
  /\ IF LessThan(i, args.maxIterations)
     THEN /\ requests' = Append(requests, SamplingRequest(i, history, args))
          /\ pc' = "await"
          /\ UNCHANGED callToolResult
     ELSE /\ pc' = "returned"
          /\ callToolResult' = Some(AgentLoopResult(results, args.toolChoice))
          /\ UNCHANGED requests

\* a client is connected and a server has been created for it
AgentInit ==
  /\ entry = "streamableHttp"
  /\ transports = <<>>
  /\ tr = <<>>
  /\ servers = 0
  /\ cleanups = [s \in SessionIds |-> 0]
  /\ eventLog = <<>>
  /\ suspended = {}
  /\ cur = NoRequest
  /\ resp = NoResp
  /\ clientCapabilities \in {{}, {"sampling"}, {"sampling", "sampling.tools"}}
  /\ validatedArgs = Undefined
  /\ pc = "ready"
  /\ iteration = 0
  /\ conversationHistory = <<>>
  /\ iterationResults = <<>>
  /\ requests = <<>>
  /\ samplingResults = <<>>
  /\ callToolResult = Undefined
  /\ run = 1
  /\ parked = Undefined

\* the client calls the tool, which was not registered for it (lines
\* 158-160): the callback does not run
CallUnregistered ==
  /\ pc = "ready"
  /\ ~ClientSupportsSampling
  /\ pc' = "notFound"
  /\ UNCHANGED <<clientCapabilities, validatedArgs, iteration,
                 conversationHistory, iterationResults, requests,
                 samplingResults, callToolResult>>
  /\ UNCHANGED <<run, parked>>
  /\ UNCHANGED transportVars

\* the callback, from its start to its first await or to its return
CallTool ==
  /\ pc = "ready"
  /\ ClientSupportsSampling
  /\ \E args \in TriggerEnhancedSamplingSchema :
       /\ validatedArgs' = Some(args)
       /\ IF ~args.includeTools
          THEN /\ requests' = Append(requests, BasicRequest)
               /\ pc' = "awaitBasic"
               /\ UNCHANGED <<iteration, conversationHistory,
                              iterationResults, callToolResult>>
          ELSE LoopFrom(0, <<Message("user", Single(TextContent(Prompt)))>>,
                        <<>>, args)
  /\ UNCHANGED <<clientCapabilities, samplingResults>>
  /\ UNCHANGED <<run, parked>>
  /\ UNCHANGED transportVars

\* sendRequest of the branch without tools resolves: the callback returns
BasicReply ==
  /\ pc = "awaitBasic"
  /\ \E result \in Results(requests[Len(requests)].schema) :
       /\ samplingResults' = Append(samplingResults, result)
       /\ callToolResult' = Some(BasicResult(result))
  /\ pc' = "returned"
  /\ UNCHANGED <<clientCapabilities, validatedArgs, iteration,
                 conversationHistory, iterationResults, requests>>
  /\ UNCHANGED <<run, parked>>
  /\ UNCHANGED transportVars

\* sendRequest of the agent loop resolves: the rest of the loop body, and
\* the loop on to the next await or to the return
SamplingReply ==
  /\ pc = "await"
  /\ \E result \in Results(requests[Len(requests)].schema) :
       LET args == validatedArgs[1]
           toolCalls == ExtractToolCalls(result.content)
       IN
       /\ samplingResults' = Append(samplingResults, result)
       /\ IF IsToolTurn(result)
          THEN \E draws \in [1..Len(toolCalls) -> Draws] :
                 LET toolResults == ToolResults(toolCalls, draws) IN
                 LoopFrom(iteration + 1,
                          conversationHistory
                            \o TurnMessages(result, toolCalls, toolResults),
                          Append(iterationResults,
                                 IterationResult(iteration + 1, result.stopReason,
                                                 Some(toolResults), Undefined)),
                          args)
          ELSE \* lines 313-326, then the return
               LET results ==
                     Append(iterationResults,
                            IterationResult(iteration + 1, result.stopReason,
                                            Undefined,
                                            Some(TextResponse(result.content))))
               IN
               /\ iterationResults' = results
               /\ pc' = "returned"
               /\ callToolResult' =
                    Some(AgentLoopResult(results, args.toolChoice))
               /\ UNCHANGED <<iteration, conversationHistory, requests>>
  /\ UNCHANGED <<clientCapabilities, validatedArgs>>
  /\ UNCHANGED <<run, parked>>
  /\ UNCHANGED transportVars

\* (mutation) the rejection is caught and the report of the rounds so far
\* is returned
SendRequestRejectedReported ==
  /\ pc \in {"await", "awaitBasic"}
  /\ pc' = "returned"
  /\ callToolResult' =
       Some(AgentLoopResult(iterationResults, validatedArgs[1].toolChoice))
  /\ UNCHANGED <<clientCapabilities, validatedArgs, iteration,
                 conversationHistory, iterationResults, requests,
                 samplingResults>>
  /\ UNCHANGED <<run, parked>>
  /\ UNCHANGED transportVars

\* sendRequest rejects (the client answers with an error, or with a result
\* the schema refuses): nothing in the callback catches it
SendRequestRejected ==
  /\ pc \in {"await", "awaitBasic"}
  /\ pc' = "thrown"
  /\ UNCHANGED <<clientCapabilities, validatedArgs, iteration,
                 conversationHistory, iterationResults, requests,
                 samplingResults, callToolResult>>
  /\ UNCHANGED <<run, parked>>
  /\ UNCHANGED transportVars

AgentNext ==
  \/ CallUnregistered
  \/ CallTool
  \/ BasicReply
  \/ SamplingReply
  \/ SendRequestRejected

AgentSpec == AgentInit /\ [][AgentNext]_vars

\* ------------------------------------------- two calls and the transports
\* Two calls of the tool are in progress while the resumable entry point
\* serves its sessions.  Each call of the callback (line 165) has its own
\* args, conversationHistory, iterationResults and loop variable (lines
\* 166-224); a call runs from one await to the next (lines 248-253) and the
\* event loop resumes whichever call's reply has come.

\* the locals of the call that is in the variables
Frame ==
  [validatedArgs |-> validatedArgs, pc |-> pc, iteration |-> iteration,
   conversationHistory |-> conversationHistory,
   iterationResults |-> iterationResults, requests |-> requests,
   samplingResults |-> samplingResults, callToolResult |-> callToolResult]

\* the locals of a call that has not started
FreshFrame ==
  [validatedArgs |-> Undefined, pc |-> "ready", iteration |-> 0,
   conversationHistory |-> <<>>, iterationResults |-> <<>>,
   requests |-> <<>>, samplingResults |-> <<>>,
   callToolResult |-> Undefined]

\* (mutation) conversationHistory is one array of the module, which the
\* two calls share
SwitchSharedHistory ==
  /\ parked # Undefined
  /\ run' = 3 - run
  /\ parked' = Some(Frame)
  /\ validatedArgs' = parked[1].validatedArgs
  /\ pc' = parked[1].pc
  /\ iteration' = parked[1].iteration
  /\ iterationResults' = parked[1].iterationResults
  /\ requests' = parked[1].requests
  /\ samplingResults' = parked[1].samplingResults
  /\ callToolResult' = parked[1].callToolResult
  /\ UNCHANGED <<clientCapabilities, conversationHistory>>
  /\ UNCHANGED transportVars

\* the event loop turns to the other call: the locals of this one stay in
\* its closure, those of the other are the ones the next step works on
Switch ==
  /\ parked # Undefined
  /\ run' = 3 - run
  /\ parked' = Some(Frame)
  /\ validatedArgs' = parked[1].validatedArgs
  /\ pc' = parked[1].pc
  /\ iteration' = parked[1].iteration
  /\ conversationHistory' = parked[1].conversationHistory
  /\ iterationResults' = parked[1].iterationResults
  /\ requests' = parked[1].requests
  /\ samplingResults' = parked[1].samplingResults
  /\ callToolResult' = parked[1].callToolResult
  /\ UNCHANGED clientCapabilities
  /\ UNCHANGED transportVars

\* what the client answers to the requests of call r: a text, or the wish
\* for one tool, neither of which it answers to the other call
RepliesTo(r) ==
  IF r = 1
  THEN {[stopReason |-> "endTurn", content |-> Single(TextContent("a"))],
        [stopReason |-> "toolUse",
         content |-> Single(ToolUseContent(1, "calculate", "1+1"))]}
  ELSE {[stopReason |-> "endTurn", content |-> Single(TextContent("b"))],
        [stopReason |-> "toolUse",
         content |-> Single(ToolUseContent(1, "bogus", ""))]}

\* the cases followed when two calls and the transports run together: one
\* transport object fewer than alone, requests without a last-event-id
\* that carry no session identifier or one that a session can have, and
\* both calls with tools, two rounds and the replies above
FewCases ==
  /\ Len(tr) < MaxTransports
  /\ cur.last = Absent
  /\ cur.hdr \in {Absent} \cup (1..MaxTransports - 1)
  /\ validatedArgs # Undefined =>
       validatedArgs[1] = [includeTools |-> TRUE, toolChoice |-> "auto",
                           maxIterations |-> Number(2, 1)]
  /\ \A j \in 1..Len(samplingResults) : samplingResults[j] \in RepliesTo(run)

ConcurrentInit ==
  /\ entry = "streamableHttp"
  /\ transports = <<>>
  /\ tr = <<>>
  /\ servers = 0
  /\ cleanups = [s \in SessionIds |-> 0]
  /\ eventLog = <<>>
  /\ suspended = {}
  /\ cur = NoRequest
  /\ resp = NoResp
  /\ clientCapabilities = {"sampling", "sampling.tools"}
  /\ validatedArgs = Undefined
  /\ pc = "ready"
  /\ iteration = 0
  /\ conversationHistory = <<>>
  /\ iterationResults = <<>>
  /\ requests = <<>>
  /\ samplingResults = <<>>
  /\ callToolResult = Undefined
  /\ run = 1
  /\ parked = Some(FreshFrame)

\* session creation, routing and termination of the resumable entry point,
\* and the steps of the two calls
ConcurrentNext ==
  \/ Switch
  \/ CallTool /\ FewCases'
  \/ SamplingReply /\ FewCases'
  \/ Arrive /\ FewCases'
  \/ PostMcp /\ FewCases'
  \/ GetMcp
  \/ DeleteMcp
  \/ \E h \in suspended : PostMcpConnected(h)
  \/ \E h \in suspended : DeleteMcpAck(h)
  \/ \E t \in 1..Len(tr) : StreamableClose(t)

ConcurrentSpec == ConcurrentInit /\ [][ConcurrentNext]_vars


\* =====================================================================
\* Properties
\* =====================================================================

\* the request q carries a session identifier the registry holds
Known(q) == ~Falsy(q.hdr) /\ q.hdr \in DOMAIN transports

\* the handler of the waiting request cur runs in this step
Dispatched == cur # NoRequest /\ cur' = NoRequest

\* transport object t is the value of a registry entry of map
RegisteredIn(map, t) == \E sid \in DOMAIN map : map[sid] = t

\* the session sid was registered once and has been removed
Terminated(sid) ==
  /\ sid \notin DOMAIN transports
  /\ \E t \in 1..Len(tr) : tr[t].sessionId = sid

\* ---------------------------------------------------------------- C1
\* C1: a request that looks a session identifier up in the registry never
\* obtains a transport whose server.connect has not completed.
C1_LookupSeesOnlyConnected ==
  (cur # NoRequest /\ Known(cur)) => tr[transports[cur.hdr]].conn = "connected"

\* ---------------------------------------------------------------- C2
\* C2: a transport whose server.connect was rejected is not in the registry,
\* and no session-creating request whose connect was rejected is answered
\* by its transport.
C2_FailedConnectNeverRegistered ==
  /\ \A t \in 1..Len(tr) :
       tr[t].conn = "failed" => ~RegisteredIn(transports, t)
  /\ (resp.t # 0 /\ Constructs(resp.req)) => tr[resp.t].conn = "connected"

\* ---------------------------------------------------------------- C3
\* C3: every registry entry holds a transport stored under its own
\* sessionId, and no transport object is registered under two identifiers.
C3_RegistryWellFormed ==
  /\ \A sid \in DOMAIN transports :
       /\ transports[sid] \in 1..Len(tr)
       /\ tr[transports[sid]].sessionId = sid
  /\ \A s1, s2 \in DOMAIN transports :
       transports[s1] = transports[s2] => s1 = s2

C3_Witness == Cardinality(DOMAIN transports) >= 2

\* ---------------------------------------------------------------- C4
\* the requests of the resumable variant that name no registered session
C4_Rejects(q) ==
  \/ q.op = "POST" /\ ~Falsy(q.hdr) /\ q.hdr \notin DOMAIN transports
  \/ q.op \in {"GET", "DELETE"} /\ ~Known(q)

\* C4: in the resumable variant a POST with a session header the registry
\* does not hold, and a GET or DELETE whose session header is missing (or
\* empty) or not in the registry, is answered 400 with the JSON-RPC error
\* -32000; the step constructs no transport and no server and changes
\* neither the registry nor any other state.
C4_InvalidSessionIs400 ==
  [][(Dispatched /\ C4_Rejects(cur)) =>
       /\ resp' = JsonRpcError(cur, 400, BadRequestCode)
       /\ UNCHANGED <<transports, tr, servers, cleanups, eventLog, suspended>>
    ]_vars

C4_Witness ==
  /\ resp.kind = "jsonrpc" /\ resp.status = 400 /\ resp.code = BadRequestCode
  /\ resp.req.op = "POST"
  /\ DOMAIN transports # {}

\* ---------------------------------------------------------------- C5
\* C5: POST /message with a sessionId that is absent or not registered is
\* answered 400 with a JSON error by the handler itself (no transport is
\* handed the message) and nothing changes; with a registered sessionId
\* the message is handed to the transport registered under it.
C5_PostMessageRouting ==
  [][(Dispatched /\ cur.op = "POSTMSG") =>
       /\ IF cur.hdr \in DOMAIN transports
          THEN resp'.kind = "sdk" /\ resp'.t = transports[cur.hdr]
          ELSE resp' = InvalidSession(cur)
       /\ UNCHANGED <<transports, tr, servers, cleanups, eventLog, suspended>>
    ]_vars

C5_Witness ==
  /\ resp.kind = "json" /\ resp.status = 400 /\ resp.req.op = "POSTMSG"
  /\ ~Falsy(resp.req.hdr)
  /\ DOMAIN transports # {}

\* ---------------------------------------------------------------- C6
\* the transport that was given the session identifier sid has closed
C6_AlreadyTerminated(sid) ==
  \E t \in 1..Len(tr) : tr[t].sessionId = sid /\ tr[t].closed

\* C6: DELETE /mcp is idempotent.  A DELETE for a registered session removes
\* exactly that session from the registry; a DELETE for a session that has
\* already been terminated (the second DELETE in a row) is answered 400 with
\* the JSON-RPC error -32000 and leaves the registry and everything else as
\* the first call left it; no block of the DELETE handler ends with an
\* exception escaping it.
C6_DeleteIdempotent ==
  [][/\ (Dispatched /\ cur.op = "DELETE") =>
          /\ resp'.kind # "exception"
          /\ Known(cur) => transports' = Remove(transports, cur.hdr)
          /\ (~Falsy(cur.hdr) /\ C6_AlreadyTerminated(cur.hdr)) =>
               /\ resp' = JsonRpcError(cur, 400, BadRequestCode)
               /\ UNCHANGED <<transports, tr, servers, cleanups, eventLog,
                              suspended>>
     /\ \A h \in suspended \ suspended' :
          h.req.op = "DELETE" =>
            /\ resp'.kind # "exception"
            /\ h.req.hdr \notin DOMAIN transports'
            /\ UNCHANGED transports
    ]_vars

C6_Witness ==
  /\ resp.req.op = "DELETE"
  /\ resp = JsonRpcError(resp.req, 400, BadRequestCode)
  /\ ~Falsy(resp.req.hdr)
  /\ C6_AlreadyTerminated(resp.req.hdr)
  /\ cleanups[resp.req.hdr] = 1
  /\ suspended = {}

\* ---------------------------------------------------------------- C7
\* C7: whenever the transport of a registered session closes (termination
\* request or close of the connection), the step removes the session's
\* handle from the registry and calls cleanup(sessionId).
C7_CloseRemovesAndCleansUp ==
  [][\A t \in 1..Len(tr) :
       (RegisteredIn(transports, t) /\ ~tr[t].closed /\ tr'[t].closed) =>
         /\ ~RegisteredIn(transports', t)
         /\ cleanups'[tr[t].sessionId] = cleanups[tr[t].sessionId] + 1
    ]_vars

\* ---------------------------------------------------------------- C8
\* C8: a session identifier that has been removed from the registry is
\* never registered again, and every later request carrying it is answered
\* with a client error (status 400).
C8_TerminatedIsTerminal ==
  [][\A sid \in SessionIds :
       Terminated(sid) =>
         /\ sid \notin DOMAIN transports'
         /\ (Dispatched /\ cur.hdr = sid) =>
              resp'.kind \in {"jsonrpc", "json"} /\ resp'.status = 400
    ]_vars

C10_KnownSessionRouted ==
  [][(Dispatched /\ cur.op \in {"POST", "GET"} /\ Known(cur)) =>
       /\ resp'.kind \in {"sdk", "jsonrpc", "exception"}
       /\ resp'.kind = "sdk" => resp'.t = transports[cur.hdr]
       /\ resp'.kind = "jsonrpc" => resp'.status = 500
       /\ UNCHANGED <<transports, tr, servers, cleanups, eventLog, suspended>>
    ]_vars

C10_Witness ==
  /\ resp.req.op = "GET" /\ resp.req.last # Absent
  /\ resp.kind = "sdk"
  /\ resp.req.hdr \in DOMAIN transports
  /\ resp.t = transports[resp.req.hdr]
  /\ eventLog[resp.t] >= 1

\* --------------------------------------------------------------- C24
\* the session identifiers the registry map routes to transport object t
RoutedTo(map, t) == {sid \in DOMAIN map : map[sid] = t}

\* the number of cleanup calls made for the session of a transport object
CleanupsOf(counts, transport) ==
  IF transport.sessionId \in DOMAIN counts THEN counts[transport.sessionId]
  ELSE 0

\* the step leaves the session of transport object t as it was: its registry
\* entry, its transport, its event store and its cleanup count
SessionUnchanged(t) ==
  /\ RoutedTo(transports', t) = RoutedTo(transports, t)
  /\ tr'[t] = tr[t]
  /\ eventLog'[t] = eventLog[t]
  /\ CleanupsOf(cleanups', tr'[t]) = CleanupsOf(cleanups, tr[t])

\* C24: sessions are independent.  A step changes the registry entry, the
\* transport, the event store or the cleanup count of at most one existing
\* session; a request that carries a registered session identifier changes
\* none but that session, a request that carries none or an unregistered
\* one changes no existing session, and the continuation of a suspended
\* handler (connect or close resolving or failing) changes none but the
\* session of the handler's own transport.  So the identifier of every
\* other session keeps being routed to the same transport object.
C24_SessionsIndependent ==
  [][LET changed == {t \in 1..Len(tr) : ~SessionUnchanged(t)} IN
     /\ Cardinality(changed) <= 1
     /\ Dispatched =>
          changed \subseteq (IF cur.hdr \in DOMAIN transports
                             THEN {transports[cur.hdr]} ELSE {})
     /\ \A h \in suspended \ suspended' : changed \subseteq {h.t}
    ]_vars

\* two sessions: one has closed and been cleaned up, the other is still
\* registered, open, and has an answer written by its own transport
C24_Witness ==
  \E a, b \in 1..Len(tr) :
    /\ a # b
    /\ RoutedTo(transports, a) # {} /\ ~tr[a].closed
    /\ tr[b].closed /\ CleanupsOf(cleanups, tr[b]) >= 1
    /\ resp.kind = "sdk" /\ resp.t = a

\* --------------------------------------------------------------- C27
\* C27: removing a session twice is safe, in both variants: when the close
\* handler runs again for a session whose cleanup has been performed, or
\* runs for a session that is no longer in the registry, the step leaves the
\* registry as it is and performs no cleanup.
C27_SecondCloseChangesNothing ==
  [][\A t \in 1..Len(tr) :
       /\ StreamableCloseAgain(t) \/ SseCloseAgain(t)
       /\ \/ CleanupsOf(cleanups, tr[t]) >= 1
          \/ tr[t].sessionId \notin DOMAIN transports
       => UNCHANGED <<transports, cleanups>>
    ]_vars

\* --------------------------------------------------------------- C31
\* C31: in the push-only variant a GET /sse that carries a sessionId
\* parameter creates no session and leaves the registry as it is, and when
\* the identifier is not registered the request is answered with a client
\* error (status 400), not with an exception escaping the handler.
C31_GetSseWithIdIsClientError ==
  [][(Dispatched /\ cur.op = "GETSSE" /\ ~Falsy(cur.hdr)) =>
       /\ UNCHANGED <<transports, tr>>
       /\ cur.hdr \notin DOMAIN transports =>
            resp'.kind \in {"json", "jsonrpc"} /\ resp'.status = 400
    ]_vars

\* --------------------------------------------------------------- C32
\* C32: in the resumable variant a POST without a session header whose body
\* is no initialize request creates no session: no step of its handler
\* changes the registry, the answer it gets once its transport is connected
\* (or without any transport) is a 400, and a transport constructed for it
\* is not left connected, open and unregistered when it is answered.
C32_NonInitPostCreatesNothing ==
  [][/\ (Dispatched /\ cur.op = "POST" /\ Falsy(cur.hdr) /\ ~cur.init) =>
          /\ transports' = transports
          /\ resp'.kind # "none" => resp'.status = 400
     /\ \A h \in suspended \ suspended' :
          (h.req.op = "POST" /\ ~h.req.init) =>
            /\ transports' = transports
            /\ tr'[h.t].conn = "connected" =>
                 /\ resp'.status = 400
                 /\ tr'[h.t].closed \/ RegisteredIn(transports', h.t)
    ]_vars

\* --------------------------------------------------------------- C33
\* C33: on SIGINT the resumable server closes every transport that is in
\* the registry and removes it: when the process exits, whatever the number
\* of registered sessions, the registry is empty and every transport that
\* was registered has been closed.
C33_SigintClosesEverySession ==
  [][(entry = "streamableHttp" /\ entry' = "exited") =>
       /\ DOMAIN transports' = {}
       /\ \A t \in 1..Len(tr) : RegisteredIn(transports, t) => tr'[t].closed
    ]_vars

\* --------------------------------------------------------------- C34
\* C34: no GET /sse request is left without a stream and without a
\* response: the handler of a GET /sse never returns having neither opened
\* an event stream nor written a response (after its return nothing holds
\* the response object, so such a request would stay unanswered for ever).
C34_GetSseNeverLeftUnanswered ==
  ~(resp.req.op = "GETSSE" /\ resp.kind = "none")

\* =====================================================================
\* Properties of the trigger-enhanced-sampling tool (under AgentSpec)
\* =====================================================================

\* the callback runs the agent loop: the caller passed includeTools = true
AgentRun == validatedArgs # Undefined /\ validatedArgs[1].includeTools

\* the tool invocations a reply contains, in their order in the reply
Invocations(result) == SelectSeq(result.content.blocks, IsToolUse)

\* the reply asks for tools: stop reason toolUse and at least one invocation
RequestsTools(result) ==
  result.stopReason = "toolUse" /\ Len(Invocations(result)) > 0

\* the plain text of a reply: the text of its text blocks, in their order,
\* one per line; every other block is passed over
RECURSIVE PlainText(_)
PlainText(blocks) ==
  IF blocks = <<>> THEN ""
  ELSE IF blocks[1].type # "text" THEN PlainText(Tail(blocks))
  ELSE IF \A i \in 2..Len(blocks) : blocks[i].type # "text" THEN blocks[1].text
  ELSE blocks[1].text \o "\n" \o PlainText(Tail(blocks))

\* the tool_result entries of message n of the conversation
ResultEntries(n) ==
  SelectSeq(conversationHistory[n].content.blocks,
            LAMBDA b : b.type = "tool_result")

\* --------------------------------------------------------------- C12
\* C12: for every maxIterations = M the tool accepts, with includeTools =
\* true, the agent loop sends at most M sampling requests (none for M < 0),
\* and the last request it may send, the one after which the loop's test
\* fails (round M), carries neither a tool list nor a toolChoice.
C12_AtMostMaxIterationsRounds ==
  AgentRun =>
    LET m == validatedArgs[1].maxIterations IN
    /\ Len(requests) * m.den <= (IF m.num < 0 THEN 0 ELSE m.num)
    /\ \A j \in 1..Len(requests) :
         ~LessThan(j, m) =>
           requests[j].tools = Undefined /\ requests[j].toolChoice = Undefined

\* --------------------------------------------------------------- C13
\* C13: with includeTools = true and maxIterations = 1, whatever toolChoice
\* the caller passed, exactly one sampling request is sent, it carries no
\* tools and no toolChoice, and the run returns with Total Iterations = 1
\* and the text of that round's reply as its final response.
C13_SoleRoundIsToolFree ==
  (AgentRun /\ validatedArgs[1].maxIterations = Number(1, 1)) =>
    /\ Len(requests) = 1
    /\ requests[1].tools = Undefined /\ requests[1].toolChoice = Undefined
    /\ pc = "returned" =>
         /\ callToolResult[1].totalIterations = 1
         /\ callToolResult[1].finalResponse =
              PlainText(samplingResults[1].content.blocks)

\* --------------------------------------------------------------- C14
\* C14 (as stated): in every turn whose reply contains tool invocations,
\* whatever its stop reason, the user message appended for the turn holds
\* as many tool_result entries as the reply holds tool_use entries, and
\* every invocation identifier has exactly one result entry carrying it.
C14_EveryInvocationAnswered ==
  AgentRun =>
    \A j \in 1..Len(samplingResults) :
      LET inv == Invocations(samplingResults[j]) IN
      Len(inv) > 0 =>
        /\ Len(conversationHistory) >= 2 * j + 1
        /\ Len(ResultEntries(2 * j + 1)) = Len(inv)
        /\ \A i \in 1..Len(inv) :
             Cardinality({n \in 1..Len(ResultEntries(2 * j + 1)) :
                            ResultEntries(2 * j + 1)[n].toolUseId = inv[i].id}) = 1

\* C14 (amended): in every turn whose reply has stop reason toolUse and
\* contains tool invocations, the user message appended for the turn holds
\* as many tool_result entries as the reply holds tool_use entries, and
\* every invocation identifier has exactly one result entry carrying it.
C14_ToolTurnInvocationsAnswered ==
  AgentRun =>
    \A j \in 1..Len(samplingResults) :
      LET inv == Invocations(samplingResults[j]) IN
      RequestsTools(samplingResults[j]) =>
        /\ Len(conversationHistory) >= 2 * j + 1
        /\ Len(ResultEntries(2 * j + 1)) = Len(inv)
        /\ \A i \in 1..Len(inv) :
             Cardinality({n \in 1..Len(ResultEntries(2 * j + 1)) :
                            ResultEntries(2 * j + 1)[n].toolUseId = inv[i].id}) = 1

C14_Witness ==
  /\ AgentRun
  /\ pc = "await"
  /\ Len(samplingResults) = 1
  /\ RequestsTools(samplingResults[1])
  /\ Len(samplingResults[1].content.blocks) = 2
  /\ samplingResults[1].content.blocks[1].type = "text"
  /\ Len(ResultEntries(3)) = 1
  /\ ResultEntries(3)[1].toolUseId = 2

\* --------------------------------------------------------------- C15
\* C15: a turn whose reply has stop reason toolUse and k >= 1 invocations
\* appends exactly two messages: the assistant message holding the reply's
\* content, then one user message holding the k results in invocation
\* order; no other turn appends anything.  When the first round is such a
\* turn and the second returns text, the run reports Total Iterations = 2
\* and the conversation holds exactly 3 messages.
C15_TurnAppendsTwoMessages ==
  AgentRun =>
    /\ \A j \in 1..Len(samplingResults) :
         LET inv == Invocations(samplingResults[j]) IN
         RequestsTools(samplingResults[j]) =>
           /\ Len(conversationHistory) >= 2 * j + 1
           /\ conversationHistory[2 * j] =
                Message("assistant", samplingResults[j].content)
           /\ conversationHistory[2 * j + 1].role = "user"
           /\ conversationHistory[2 * j + 1].content.isArray
           /\ Len(conversationHistory[2 * j + 1].content.blocks) = Len(inv)
           /\ \A i \in 1..Len(inv) :
                /\ conversationHistory[2 * j + 1].content.blocks[i].type
                     = "tool_result"
                /\ conversationHistory[2 * j + 1].content.blocks[i].toolUseId
                     = inv[i].id
    /\ Len(conversationHistory) =
         1 + 2 * Cardinality({j \in 1..Len(samplingResults) :
                                RequestsTools(samplingResults[j])})
    /\ (/\ pc = "returned"
        /\ Len(samplingResults) = 2
        /\ RequestsTools(samplingResults[1])
        /\ ~RequestsTools(samplingResults[2])) =>
         /\ callToolResult[1].totalIterations = 2
         /\ Len(conversationHistory) = 3

C15_Witness ==
  /\ AgentRun
  /\ pc = "returned"
  /\ Len(samplingResults) = 2
  /\ RequestsTools(samplingResults[1])
  /\ Len(Invocations(samplingResults[1])) = 2
  /\ samplingResults[2].stopReason = "endTurn"
  /\ callToolResult[1].finalResponse = "a"


\* --------------------------------------------------------------- C16
\* every round of the run so far asked for tools: none was terminal
NoTerminalRound ==
  \A j \in 1..Len(samplingResults) : RequestsTools(samplingResults[j])

\* the run used up its rounds: every request is answered, no round was
\* terminal and the loop's test allows no further iteration
Exhausted ==
  /\ AgentRun
  /\ Len(samplingResults) = Len(requests)
  /\ NoTerminalRound
  /\ ~LessThan(Len(samplingResults), validatedArgs[1].maxIterations)

\* what tells an iteration-limit result from a terminal answer in the
\* returned report: it lists no iteration, or its last iteration lists
\* tool calls
IterationLimitResult(report) ==
  \/ report.iterationDetails = <<>>
  \/ report.iterationDetails[Len(report.iterationDetails)].toolCalls
       # Undefined

C17_NoToolsCapabilityNoRequest ==
  (AgentRun /\ "sampling.tools" \notin clientCapabilities) =>
    /\ requests = <<>>
    /\ pc = "returned"
    /\ callToolResult[1].isError
    /\ callToolResult[1].kind = "capability-mismatch"

\* --------------------------------------------------------------- C18
\* C18: a reply with stop reason toolUse and no tool invocation ends the
\* run: nothing is appended to the conversation, no tool is executed, no
\* further request is sent, and the final response is the reply's text.
C18_ToolUseWithoutInvocationIsTerminal ==
  AgentRun =>
    \A j \in 1..Len(samplingResults) :
      (/\ samplingResults[j].stopReason = "toolUse"
       /\ Len(Invocations(samplingResults[j])) = 0) =>
        /\ j = Len(samplingResults) /\ j = Len(requests)
        /\ Len(conversationHistory) = 2 * j - 1
        /\ iterationResults[j].toolCalls = Undefined
        /\ pc = "returned"
        /\ callToolResult[1].finalResponse =
             PlainText(samplingResults[j].content.blocks)

\* --------------------------------------------------------------- C19
\* C19: when a round is terminal (its reply does not ask for tools), the
\* final response of the run is the plain text of that reply: the text of
\* a single text block, or the texts of the text blocks of an array in
\* their order (other blocks passed over); no request is sent after it.
C19_FinalResponseIsPlainText ==
  AgentRun =>
    \A j \in 1..Len(samplingResults) :
      ~RequestsTools(samplingResults[j]) =>
        /\ j = Len(requests)
        /\ pc = "returned"
        /\ callToolResult[1].totalIterations = j
        /\ callToolResult[1].finalResponse =
             PlainText(samplingResults[j].content.blocks)

\* --------------------------------------------------------------- C20
\* the names executeMockTool knows
KnownTools == {"get_weather", "calculate", "get_time"}

\* C20: for a name outside {get_weather, calculate, get_time}
\* executeMockTool returns "Unknown tool: <name>", whatever the input and
\* whatever Math.random and the clock give; the loop does not throw on such
\* an invocation, which gets exactly one result entry in the conversation,
\* holding that text.
C20_UnknownToolIsAText ==
  /\ \A name \in {u.name : u \in ToolUses} \ KnownTools :
       \A input \in {u.input : u \in ToolUses} \cup Timezones :
         \A draw \in Draws :
           ExecuteMockTool(name, input, draw) = "Unknown tool: " \o name
  /\ pc = "thrown" => Len(samplingResults) < Len(requests)
  /\ AgentRun =>
       \A j \in 1..Len(samplingResults) :
         RequestsTools(samplingResults[j]) =>
           \A i \in 1..Len(Invocations(samplingResults[j])) :
             LET call == Invocations(samplingResults[j])[i] IN
             call.name \notin KnownTools =>
               /\ Len(conversationHistory) >= 2 * j + 1
               /\ {n \in 1..Len(ResultEntries(2 * j + 1)) :
                     ResultEntries(2 * j + 1)[n].toolUseId = call.id}
                    = {i}
               /\ ResultEntries(2 * j + 1)[i].text
                    = "Unknown tool: " \o call.name
               /\ iterationResults[j].toolCalls[1][i].result
                    = "Unknown tool: " \o call.name

C20_Witness ==
  /\ AgentRun
  /\ Len(samplingResults) = 1
  /\ RequestsTools(samplingResults[1])
  /\ Len(Invocations(samplingResults[1])) = 2
  /\ Invocations(samplingResults[1])[1].name = "calculate"
  /\ Invocations(samplingResults[1])[2].name = "bogus"
  /\ ResultEntries(3)[2].text = "Unknown tool: bogus"

\* --------------------------------------------------------------- C21
\* text begins with prefix
StartsWith(text, prefix) ==
  Len(text) >= Len(prefix) /\ SubSeq(text, 1, Len(prefix)) = prefix

\* the characters of basic arithmetic: digits, + - * / ( ) . % and whitespace
BasicMathChars ==
  {"0", "1", "2", "3", "4", "5", "6", "7", "8", "9"}
    \cup {"+", "-", "*", "/", "(", ")", ".", "%"} \cup {" ", "\t", "\n"}

SolelyBasicMath(expr) ==
  \A i \in 1..Len(expr) : SubSeq(expr, i, i) \in BasicMathChars

\* the expressions the clients of the model have calculate evaluate
Expressions == {u.input : u \in {v \in ToolUses : v.name = "calculate"}}

\* what the claim allows calculate to answer for an expression
CalculateAnswer(expr, text) ==
  /\ StartsWith(text, "Result: ") \/ StartsWith(text, "Error:")
  /\ StartsWith(text, "Result: ") => SolelyBasicMath(expr)
  /\ SolelyBasicMath(expr) /\ expr \notin DOMAIN Evaluates
       => StartsWith(text, "Error:")

\* C21: calculate evaluates an expression only if it consists solely of
\* digits, + - * / ( ) . % and whitespace; for every other expression, and
\* for such an expression whose evaluation fails, its result is a text that
\* begins with "Error:"; every calculate invocation of a tool turn has its
\* result text in the conversation, and a run ends by an exception only
\* while a sampling request of its is unanswered, never because of a tool.
C21_CalculateAnswersErrorText ==
  /\ \A expr \in Expressions : \A d \in Draws :
        CalculateAnswer(expr, ExecuteMockTool("calculate", expr, d))
  /\ AgentRun =>
        /\ \A j \in 1..Len(samplingResults) :
              RequestsTools(samplingResults[j]) =>
                LET calls == Invocations(samplingResults[j])
                IN  /\ Len(conversationHistory) >= 2 * j + 1
                    /\ Len(ResultEntries(2 * j + 1)) = Len(calls)
                    /\ \A i \in 1..Len(calls) :
                          calls[i].name = "calculate" =>
                            CalculateAnswer(calls[i].input,
                                            ResultEntries(2 * j + 1)[i].text)
        /\ pc = "thrown" => Len(requests) = Len(samplingResults) + 1

\* a run whose client had calculate evaluate "1e3", which has a letter, and
\* "1+", which is no expression, and got an error text for each
C21_Witness ==
  /\ AgentRun
  /\ Len(samplingResults) = 1
  /\ RequestsTools(samplingResults[1])
  /\ Invocations(samplingResults[1])[1].name = "calculate"
  /\ Invocations(samplingResults[1])[1].input \in {"1e3", "1+"}
  /\ StartsWith(ResultEntries(3)[1].text, "Error:")
  /\ pc = "await"

\* --------------------------------------------------------------- C22
\* the tool_result blocks of the last message of a request
LastResultBlocks(request) ==
  SelectSeq(request.messages[Len(request.messages)].content.blocks,
            LAMBDA b : b.type = "tool_result")

\* C22: the tool invocations of a turn are joined before the next request:
\* when the request of iteration i+1 is sent, the reply of iteration i has
\* been received, every invocation of it has its result on record, and the
\* one user message combining those results, one per invocation and under
\* the invocation's identifier, is the last message of the request, after
\* the assistant message of the reply; at most one request is unanswered.
C22_NextRequestAfterAllResults ==
  AgentRun =>
    /\ Len(requests) <= Len(samplingResults) + 1
    /\ \A j \in 2..Len(requests) :
          LET calls == Invocations(samplingResults[j - 1])
              msgs == requests[j].messages
          IN  /\ Len(iterationResults) >= j - 1
              /\ iterationResults[j - 1].toolCalls # Undefined
              /\ Len(iterationResults[j - 1].toolCalls[1]) = Len(calls)
              /\ Len(msgs) >= 3
              /\ msgs[Len(msgs) - 1] =
                   Message("assistant", samplingResults[j - 1].content)
              /\ msgs[Len(msgs)].role = "user"
              /\ Len(LastResultBlocks(requests[j])) = Len(calls)
              /\ \A i \in 1..Len(calls) :
                    /\ LastResultBlocks(requests[j])[i].toolUseId = calls[i].id
                    /\ LastResultBlocks(requests[j])[i].text =
                         iterationResults[j - 1].toolCalls[1][i].result

\* a second request was sent after a turn of two invocations
C22_Witness ==
  /\ AgentRun
  /\ pc = "await"
  /\ Len(requests) = 2
  /\ Len(Invocations(samplingResults[1])) = 2
  /\ Len(LastResultBlocks(requests[2])) = 2

\* --------------------------------------------------------------- C23
\* the result texts the k-th call of a list of calls can get
Outcomes(toolCalls, k) ==
  {ToolResults(toolCalls, draws)[k].result :
     draws \in [1..Len(toolCalls) -> Draws]}

Reversed(seq) == [k \in 1..Len(seq) |-> seq[Len(seq) + 1 - k]]

\* C23: the result of a tool invocation depends on nothing but its own name
\* and input: the result on record for the i-th invocation of a turn is one
\* the invocation can get when it is the only one of its turn, its possible
\* results are the same when the invocations of the turn come in the
\* opposite order, when another invocation is put before it and when the
\* others are taken away, and for calculate and for an unknown tool there is
\* only one possible result.
C23_ResultDependsOnOwnCallOnly ==
  AgentRun =>
    \A j \in 1..Len(samplingResults) :
      RequestsTools(samplingResults[j]) =>
        LET calls == ExtractToolCalls(samplingResults[j].content)
            n == Len(calls)
        IN  /\ iterationResults[j].toolCalls # Undefined
            /\ Len(iterationResults[j].toolCalls[1]) = n
            /\ \A i \in 1..n :
                  LET alone == Outcomes(<<calls[i]>>, 1)
                      rec == iterationResults[j].toolCalls[1][i].result
                  IN  /\ rec \in alone
                      /\ Outcomes(calls, i) = alone
                      /\ Outcomes(Reversed(calls), n + 1 - i) = alone
                      /\ \A u \in ArrayToolUses :
                            Outcomes(<<ToolUseContent(0, u.name, u.input)>>
                                       \o calls, i + 1) = alone
                      /\ calls[i].name = "calculate"
                            \/ calls[i].name \notin KnownTools
                           => alone = {rec}

\* a turn of two invocations, an unknown tool and then calculate, whose
\* calculate got the result of its own expression
C23_Witness ==
  /\ AgentRun
  /\ Len(samplingResults) = 1
  /\ RequestsTools(samplingResults[1])
  /\ Len(ExtractToolCalls(samplingResults[1].content)) = 2
  /\ ExtractToolCalls(samplingResults[1].content)[1].name = "bogus"
  /\ ExtractToolCalls(samplingResults[1].content)[2].name = "calculate"
  /\ iterationResults[1].toolCalls[1][2].result = "Result: 2"

\* --------------------------------------------------------------- C28
\* C28: in every iteration i (counted from 0) with i < maxIterations - 1 the
\* request offers the whole catalog, get_weather, calculate and get_time,
\* with toolChoice {mode: m}, m being the toolChoice the caller passed, the
\* same in each of these iterations.
C28_EarlierRequestsOfferCatalog ==
  AgentRun =>
    \A j \in 1..Len(requests) :
      LessThan(j, validatedArgs[1].maxIterations) =>
        /\ requests[j].tools = Some(<<"get_weather", "calculate", "get_time">>)
        /\ requests[j].toolChoice = Some([mode |-> validatedArgs[1].toolChoice])

\* a caller asked for two rounds with toolChoice required: the first request
\* offered the catalog under that mode, the second has been sent
C28_Witness ==
  /\ AgentRun
  /\ validatedArgs[1].maxIterations = Number(2, 1)
  /\ validatedArgs[1].toolChoice = "required"
  /\ Len(requests) = 2
  /\ requests[1].toolChoice = Some([mode |-> "required"])
  /\ requests[1].tools # Undefined

\* --------------------------------------------------------------- C29
\* C29: every request of a run carries the whole conversation so far: the
\* request of iteration i (counted from 0) has exactly 1 + 2i messages, the
\* first of them the user message of the prompt, and the messages of each
\* request begin with the messages of the request before it; the request
\* that awaits its reply carries the conversation as it stands.
C29_RequestCarriesWholeConversation ==
  AgentRun =>
    /\ \A j \in 1..Len(requests) :
          LET msgs == requests[j].messages IN
          /\ Len(msgs) = 1 + 2 * (j - 1)
          /\ msgs[1] = [role |-> "user",
                        content |-> Single(TextContent(Prompt))]
          /\ j > 1 =>
                SubSeq(msgs, 1, Len(requests[j - 1].messages))
                  = requests[j - 1].messages
    /\ pc = "await" => requests[Len(requests)].messages = conversationHistory

\* the second request of a run, of three messages, awaits its reply
C29_Witness ==
  /\ AgentRun
  /\ pc = "await"
  /\ Len(requests) = 2
  /\ Len(requests[2].messages) = 3
  /\ requests[2].messages[2].role = "assistant"

\* --------------------------------------------------------------- C30
\* C30: the records are kept in the order of the iterations, one for each
\* round: there are as many records as requests answered, record j has
\* iteration = j, every record before the last holds tool calls, at least
\* one, and no textResponse, so that only the last can hold a textResponse;
\* the Total Iterations of the report is the number of requests answered
\* and its details are those of the records, in their order.
C30_OneRecordPerRoundInOrder ==
  AgentRun =>
    /\ Len(iterationResults) = Len(samplingResults)
    /\ \A j \in 1..Len(iterationResults) :
          /\ iterationResults[j].iteration = j
          /\ j < Len(iterationResults) =>
                /\ iterationResults[j].toolCalls # Undefined
                /\ Len(iterationResults[j].toolCalls[1]) > 0
                /\ iterationResults[j].textResponse = Undefined
    /\ pc = "returned" =>
          /\ callToolResult[1].totalIterations = Len(samplingResults)
          /\ Len(callToolResult[1].iterationDetails) = Len(samplingResults)
          /\ \A j \in 1..Len(samplingResults) :
                callToolResult[1].iterationDetails[j].iteration = j

\* a run of two rounds has returned: the first record holds the tool calls
\* of the first reply, the second the text of the second
C30_Witness ==
  /\ AgentRun
  /\ pc = "returned"
  /\ Len(iterationResults) = 2
  /\ iterationResults[1].toolCalls # Undefined
  /\ iterationResults[2].textResponse = Some("a")
  /\ callToolResult[1].totalIterations = 2

\* --------------------------------------------------------------- C35
\* the tool turns of the run so far
ToolTurns == {j \in 1..Len(samplingResults) : RequestsTools(samplingResults[j])}

\* the conversation after t tool turns: 1 + 2t messages, user and assistant
\* in turn from the first to the last, both user, and after every
\* assistant message the user message of its results, one for each
\* invocation of the assistant message and under its identifier
WellShaped(history, t) ==
  /\ Len(history) = 1 + 2 * t
  /\ \A k \in 1..Len(history) :
        history[k].role = IF k % 2 = 1 THEN "user" ELSE "assistant"
  /\ \A k \in 1..Len(history) :
        k % 2 = 0 =>
          LET calls == SelectSeq(history[k].content.blocks, IsToolUse)
              blocks == history[k + 1].content.blocks
          IN  /\ Len(blocks) = Len(calls)
              /\ \A i \in 1..Len(blocks) :
                    /\ blocks[i].type = "tool_result"
                    /\ blocks[i].toolUseId = calls[i].id

\* C35: the conversation of a run is append-only and well shaped: after t
\* tool turns it holds 1 + 2t messages, the roles go user, assistant, user,
\* ... from a user message to a user message, every assistant message is
\* followed at once by the user message of its results, and a step of the
\* run leaves every message it finds in its place and unchanged.
C35_ConversationAppendOnly ==
  [][AgentRun' =>
       /\ WellShaped(conversationHistory', Cardinality(ToolTurns'))
       /\ AgentRun =>
            /\ Len(conversationHistory') >= Len(conversationHistory)
            /\ SubSeq(conversationHistory', 1, Len(conversationHistory))
                 = conversationHistory
    ]_vars

\* a run has had a tool turn of two invocations and has returned: three
\* messages, the last with the two results
C35_Witness ==
  /\ AgentRun
  /\ pc = "returned"
  /\ Len(samplingResults) = 2
  /\ Len(conversationHistory) = 3
  /\ Len(conversationHistory[3].content.blocks) = 2

\* --------------------------------------------------------------- C36
\* C36: with includeTools = false the tool sends exactly one sampling
\* request, of the user message of the prompt alone, without tools and
\* without toolChoice; it executes no tool and keeps no conversation or
\* record; and what it returns is made of the reply alone, the same for
\* every maxIterations (zero and negative included) and every toolChoice.
C36_WithoutToolsOneBareRequest ==
  (validatedArgs # Undefined /\ ~validatedArgs[1].includeTools) =>
    /\ pc \in {"awaitBasic", "returned", "thrown"}
    /\ requests =
         <<[messages |-> <<[role |-> "user",
                            content |-> Single(TextContent(Prompt))]>>,
            tools |-> Undefined, toolChoice |-> Undefined,
            schema |-> "CreateMessageResultSchema"]>>
    /\ conversationHistory = <<>> /\ iterationResults = <<>>
    /\ Len(samplingResults) <= 1
    /\ pc = "returned" <=> Len(samplingResults) = 1
    /\ pc = "returned" =>
         callToolResult =
           Some([kind |-> "basic", isError |-> FALSE, totalIterations |-> 0,
                 toolChoiceMode |-> "", iterationDetails |-> <<>>,
                 finalResponse |-> "", result |-> Some(samplingResults[1])])
    /\ pc # "returned" => callToolResult = Undefined

\* a caller passed includeTools = false with maxIterations 0 and toolChoice
\* required, and got the reply to the one request back
C36_Witness ==
  /\ validatedArgs # Undefined
  /\ ~validatedArgs[1].includeTools
  /\ validatedArgs[1].maxIterations = Number(0, 1)
  /\ validatedArgs[1].toolChoice = "required"
  /\ pc = "returned"
  /\ callToolResult[1].result = Some(samplingResults[1])

\* --------------------------------------------------------------- C37
\* C37: with includeTools = true and maxIterations <= 0 the loop body never
\* runs: the call sends no sampling request, executes no tool, and returns,
\* without an error, the report of 0 iterations with the final response
\* "No final response".
C37_NoRoundsForNonPositiveLimit ==
  (AgentRun /\ validatedArgs[1].maxIterations.num <= 0) =>
    /\ pc = "returned"
    /\ requests = <<>> /\ samplingResults = <<>>
    /\ iterationResults = <<>>
    /\ Len(conversationHistory) = 1
    /\ callToolResult # Undefined
    /\ callToolResult[1].kind = "agent"
    /\ ~callToolResult[1].isError
    /\ callToolResult[1].totalIterations = 0
    /\ callToolResult[1].iterationDetails = <<>>
    /\ callToolResult[1].finalResponse = "No final response"

\* a caller passed maxIterations -1 with tools and got the empty report
C37_Witness ==
  /\ AgentRun
  /\ validatedArgs[1].maxIterations = Number(-1, 1)
  /\ pc = "returned"
  /\ callToolResult[1].totalIterations = 0

\* --------------------------------------------------------------- C38
\* C38: when a run ended with a terminal text round, the final response of
\* the report is the textResponse of the last record; the report says
\* "No final response" only when no round ended with a terminal text
\* response.
C38_FinalResponseIsLastText ==
  (AgentRun /\ pc = "returned") =>
    LET report == callToolResult[1]
        n == Len(iterationResults)
    IN  /\ (n > 0 /\ iterationResults[n].textResponse # Undefined) =>
              report.finalResponse = iterationResults[n].textResponse[1]
        /\ report.finalResponse = "No final response" =>
              \A j \in 1..n : iterationResults[j].textResponse = Undefined

Runs == {1, 2}

\* the locals of call r
FrameOf(r) == IF r = run THEN Frame ELSE parked[1]

\* --------------------------------------------------------------- C25
\* msg is a message of call r: its prompt, the content of a reply it
\* received, or the results on its records under the identifiers of the
\* invocations of such a reply
OwnMessage(r, msg) ==
  LET f == FrameOf(r) IN
  \/ msg = Message("user", Single(TextContent(Prompts[r])))
  \/ \E j \in 1..Len(f.samplingResults) :
       msg = Message("assistant", f.samplingResults[j].content)
  \/ \E j \in 1..Len(f.samplingResults) :
       LET calls == Invocations(f.samplingResults[j])
           blocks == msg.content.blocks
       IN  /\ msg.role = "user"
           /\ j <= Len(f.iterationResults)
           /\ f.iterationResults[j].toolCalls # Undefined
           /\ Len(blocks) = Len(calls)
           /\ Len(f.iterationResults[j].toolCalls[1]) = Len(calls)
           /\ \A i \in 1..Len(calls) :
                 /\ blocks[i].type = "tool_result"
                 /\ blocks[i].toolUseId = calls[i].id
                 /\ blocks[i].text =
                      f.iterationResults[j].toolCalls[1][i].result

\* the j-th record of call r is made of the j-th reply call r received
OwnRecord(r, j) ==
  LET f == FrameOf(r)
      rec == f.iterationResults[j]
      reply == f.samplingResults[j]
  IN  /\ rec.stopReason = reply.stopReason
      /\ rec.toolCalls # Undefined =>
            /\ Len(rec.toolCalls[1]) = Len(Invocations(reply))
            /\ \A i \in 1..Len(rec.toolCalls[1]) :
                  /\ rec.toolCalls[1][i].name = Invocations(reply)[i].name
                  /\ rec.toolCalls[1][i].input = Invocations(reply)[i].input
      /\ rec.textResponse # Undefined =>
            rec.textResponse[1] = PlainText(reply.content.blocks)

\* C25: a call owns its conversation and its records.  With two calls
\* taking turns at their awaits, every message of a call's conversation
\* and of each of its requests is a message of that call, every record of
\* it is made of a reply that call received, and its report counts its own
\* replies and gives as final response a text of its own last reply, or the
\* words for none.
C25_RunsShareNothing ==
  parked # Undefined =>
    \A r \in Runs :
      LET f == FrameOf(r) IN
      /\ \A k \in 1..Len(f.conversationHistory) :
            OwnMessage(r, f.conversationHistory[k])
      /\ \A j \in 1..Len(f.requests) :
            \A k \in 1..Len(f.requests[j].messages) :
              OwnMessage(r, f.requests[j].messages[k])
      /\ Len(f.iterationResults) = Len(f.samplingResults)
      /\ \A j \in 1..Len(f.iterationResults) : OwnRecord(r, j)
      /\ f.callToolResult # Undefined =>
            /\ f.callToolResult[1].totalIterations = Len(f.samplingResults)
            /\ f.callToolResult[1].finalResponse
                 \in {"No final response",
                      PlainText(f.samplingResults[Len(f.samplingResults)]
                                  .content.blocks)}

\* both calls have had a tool turn: one awaits the reply to its second
\* request, the other has returned its report of two rounds
C25_Witness ==
  /\ parked # Undefined
  /\ FrameOf(1).pc = "await" /\ Len(FrameOf(1).requests) = 2
  /\ FrameOf(2).pc = "returned" /\ Len(FrameOf(2).iterationResults) = 2
  /\ FrameOf(1).conversationHistory[3] # FrameOf(2).conversationHistory[3]

\* --------------------------------------------------------------- C26
\* C26: a call that awaits the reply to a sampling request holds up nothing
\* but itself.  While a call awaits: a request can arrive when none is
\* waiting, the handler of the waiting request can run, a suspended handler
\* can go on and an open session can close when no request is waiting, and
\* the other call can be resumed and, once it is, can start or take the
\* reply it awaits.
C26_AwaitHoldsUpNothingElse ==
  parked # Undefined =>
    \A r \in Runs :
      FrameOf(r).pc = "await" =>
        /\ cur = NoRequest => ENABLED Arrive
        /\ cur.op = "POST" => ENABLED PostMcp
        /\ cur.op = "GET" => ENABLED GetMcp
        /\ cur.op = "DELETE" => ENABLED DeleteMcp
        /\ \A h \in suspended :
              cur = NoRequest =>
                ENABLED PostMcpConnected(h) \/ ENABLED DeleteMcpAck(h)
        /\ \A t \in 1..Len(tr) :
              cur = NoRequest /\ tr[t].conn = "connected" /\ ~tr[t].closed
                => ENABLED StreamableClose(t)
        /\ ENABLED Switch
        /\ run # r /\ pc = "ready" => ENABLED CallTool
        /\ run # r /\ pc = "await" => ENABLED SamplingReply

\* call 1 still awaits the reply to its first request; meanwhile call 2 has
\* run its two rounds and returned, and a session was opened and terminated
C26_Witness ==
  /\ parked # Undefined
  /\ FrameOf(1).pc = "await" /\ FrameOf(1).samplingResults = <<>>
  /\ FrameOf(2).pc = "returned" /\ Len(FrameOf(2).iterationResults) = 2
  /\ \E t \in 1..Len(tr) : tr[t].closed /\ CleanupsOf(cleanups, tr[t]) = 1
====
